---- MODULE Spec2Model ----
(***************************************************************************)
(* The task_manager program of "src/Solana Code/lib.rs" as a state machine. *)
(*                                                                         *)
(* The state is the ledger the program acts on: the task accounts at the   *)
(* program-derived addresses, the lamports each of them holds, the wallets *)
(* of the signers and the cluster clock.  Every instruction is one         *)
(* transaction: the account constraints of its Accounts struct are checked *)
(* first, then the handler runs, then the exit step (close) is applied; an *)
(* error anywhere reverts the transaction.  `last` and `pre` record the    *)
(* transaction that has just been processed and the ledger it ran against. *)
(***************************************************************************)
EXTENDS Integers, Sequences, FiniteSets, TLC

VARIABLES accounts, lamports, task_lamports, clock, last, pre,
          ever_completed, ever_deleted, pending, results

vars ==
    <<accounts, lamports, task_lamports, clock, last, pre,
      ever_completed, ever_deleted, pending, results>>

(***************************************************************************)
(* Strings.  A string is kept run-length encoded: a sequence of runs       *)
(* [c, n] (n >= 1 copies of the byte c, adjacent runs of different bytes), *)
(* so that a 1000-byte description is one run.  Two strings are equal iff  *)
(* their encodings are.                                                    *)
(***************************************************************************)
Rep(c, n) == IF n = 0 THEN << >> ELSE << [c |-> c, n |-> n] >>

RECURSIVE len(_)
len(s) == IF s = << >> THEN 0 ELSE Head(s).n + len(Tail(s))

is_whitespace(c) == c = " "

RECURSIVE trim_start(_)
trim_start(s) ==
    IF s = << >> THEN << >>
    ELSE IF is_whitespace(Head(s).c) THEN trim_start(Tail(s))
    ELSE s

RECURSIVE trim_end(_)
trim_end(s) ==
    IF s = << >> THEN << >>
    ELSE IF is_whitespace(s[Len(s)].c) THEN trim_end(SubSeq(s, 1, Len(s) - 1))
    ELSE s

trim(s) == trim_end(trim_start(s))

is_empty(s) == len(s) = 0

(***************************************************************************)
(* Program constants.                                                      *)
(***************************************************************************)
MAX_TITLE == 100
MAX_DESCRIPTION == 1000
\* A seed of a program-derived address holds at most 32 bytes; the title is
\* used as a seed.
MAX_SEED_LEN == 32
\* The deposit (rent-exempt minimum) of one task account, in deposit units.
Rent == 1

(***************************************************************************)
(* Bounds of the model and the inputs the transactions are drawn from.     *)
(***************************************************************************)
MaxClock == 1

Owners == {"A", "B"}

T_BLANK == Rep(" ", 1)
T_PADDED == << [c |-> " ", n |-> 1], [c |-> "a", n |-> 1], [c |-> " ", n |-> 1] >>
T_SEED == Rep("a", MAX_SEED_LEN)
T_SEED1 == Rep("a", MAX_SEED_LEN + 1)
T_MAX == Rep("a", MAX_TITLE)
T_MAX1 == Rep("a", MAX_TITLE + 1)
T_BLANK_LONG == Rep(" ", MAX_TITLE + 1)
Titles == {T_BLANK, T_PADDED, T_SEED, T_SEED1, T_MAX, T_MAX1, T_BLANK_LONG}

D_EMPTY == << >>
D_BLANK == Rep(" ", 2)
D_PADDED == << [c |-> " ", n |-> 1], [c |-> "d", n |-> 1], [c |-> " ", n |-> 1] >>
D_MAX == Rep("d", MAX_DESCRIPTION)
D_MAX1 == Rep("d", MAX_DESCRIPTION + 1)
D_BLANK_LONG == Rep(" ", MAX_DESCRIPTION + 1)
Descriptions == {D_EMPTY, D_BLANK, D_PADDED, D_MAX, D_MAX1, D_BLANK_LONG}

\* The addresses a client can derive and pass as the `task` account.
Addresses == {<<o, t>> : o \in Owners, t \in {x \in Titles : len(x) <= MAX_SEED_LEN}}

\* The `task` account a client passes to create_task with a title: the address
\* derived from the title and a key (its own or not).  No address can be
\* derived from a title longer than a seed; the client then passes some
\* address, here that of T_SEED.
ClientAddresses(title) ==
    {<<o, IF len(title) <= MAX_SEED_LEN THEN title ELSE T_SEED>> : o \in Owners}

\* The wallets at genesis: A can pay two deposits, B one.
InitLamports == [o \in Owners |-> IF o = "A" THEN 2 * Rent ELSE Rent]

(***************************************************************************)
(* The ledger.                                                             *)
(***************************************************************************)
None == [author |-> "none"]

\* The account data right after `init`: the discriminator and zeroes.
ZeroTask ==
    [author |-> "default", title |-> << >>, description |-> << >>,
     is_completed |-> FALSE, created_at |-> 0]

State ==
    [accounts |-> accounts, lamports |-> lamports,
     task_lamports |-> task_lamports, clock |-> clock]

Ok(st) == [result |-> "Ok", st |-> st]
Err(st, e) == [result |-> e, st |-> st]

\* Pubkey::find_program_address([b"task", author, title]): the derivation is
\* taken to be collision free, so the address is the pair of its seeds.
find_program_address(author, title) == <<author, title>>

(***************************************************************************)
(* Account space (derive(InitSpace) and the Borsh encoding of Task).       *)
(***************************************************************************)
DISCRIMINATOR_SIZE == 8
PUBKEY_SIZE == 32
STRING_PREFIX == 4
BOOL_SIZE == 1
I64_SIZE == 8

\* Task::INIT_SPACE: every field at its largest, a String as its length
\* prefix and max_len bytes.
INIT_SPACE ==
    PUBKEY_SIZE + (STRING_PREFIX + MAX_TITLE) + (STRING_PREFIX + MAX_DESCRIPTION)
        + BOOL_SIZE + I64_SIZE

\* Mutant of space: the discriminator is not provided for.
space_NoDiscriminator == INIT_SPACE

\* space = 8 + Task::INIT_SPACE: the data length the task account is
\* created with.
space == DISCRIMINATOR_SIZE + INIT_SPACE

\* The bytes the account data of a task takes: the discriminator and the
\* Borsh encoding of the fields, a String as its length and its bytes.
serialized_size(task) ==
    DISCRIMINATOR_SIZE + PUBKEY_SIZE + (STRING_PREFIX + len(task.title))
        + (STRING_PREFIX + len(task.description)) + BOOL_SIZE + I64_SIZE

\* The exit step of an instruction: the task is written back into the
\* account data, which fails when the data does not hold it.
exit(st, task) ==
    IF serialized_size(st.accounts[task]) > space
    THEN Err(st, "AccountDidNotSerialize")
    ELSE Ok(st)

(***************************************************************************)
(* Account constraints (the Accounts structs).                             *)
(***************************************************************************)
\* Mutant of CreateTask: init_if_needed instead of init, an address in use is
\* taken as it is.
CreateTask_InitIfNeeded(st, author, task, title) ==
    IF len(title) > MAX_SEED_LEN THEN Err(st, "MaxSeedLengthExceeded")
    ELSE IF task # find_program_address(author, title) THEN Err(st, "ConstraintSeeds")
    ELSE IF st.accounts[task] # None THEN Ok(st)
    ELSE IF st.lamports[author] < Rent THEN Err(st, "InsufficientFunds")
    ELSE Ok([st EXCEPT !.lamports[author] = @ - Rent,
                       !.task_lamports[task] = @ + Rent,
                       !.accounts[task] = ZeroTask])

\* CreateTask: derive the address from the instruction's title, require the
\* passed account to be that address, and `init` it: create the account
\* with the payer's lamports (the system program refuses an address in use).
CreateTask(st, author, task, title) ==
    IF len(title) > MAX_SEED_LEN THEN Err(st, "MaxSeedLengthExceeded")
    ELSE IF task # find_program_address(author, title) THEN Err(st, "ConstraintSeeds")
    ELSE IF st.accounts[task] # None THEN Err(st, "AlreadyExists")
    ELSE IF st.lamports[author] < Rent THEN Err(st, "InsufficientFunds")
    ELSE Ok([st EXCEPT !.lamports[author] = @ - Rent,
                       !.task_lamports[task] = @ + Rent,
                       !.accounts[task] = ZeroTask])

\* Account<Task> with seeds = [b"task", author, task.title]: the account
\* must hold a Task, and its address must be the one derived from the
\* signer and the stored title.
TaskAccount(st, author, task) ==
    IF st.accounts[task] = None THEN Err(st, "NotFound")
    ELSE IF len(st.accounts[task].title) > MAX_SEED_LEN
        THEN Err(st, "MaxSeedLengthExceeded")
    ELSE IF task # find_program_address(author, st.accounts[task].title)
        THEN Err(st, "ConstraintSeeds")
    ELSE Ok(st)

\* Mutant of UpdateTask: the seeds constraint left out.
UpdateTask_NoSeeds(st, author, task) ==
    IF st.accounts[task] = None THEN Err(st, "NotFound") ELSE Ok(st)

UpdateTask(st, author, task) == TaskAccount(st, author, task)

CompleteTask(st, author, task) == TaskAccount(st, author, task)

\* Mutant of DeleteTask: the seeds constraint left out.
DeleteTask_NoSeeds(st, author, task) ==
    IF st.accounts[task] = None THEN Err(st, "NotFound") ELSE Ok(st)

DeleteTask(st, author, task) == TaskAccount(st, author, task)

\* Mutant of close: the lamports are moved, the account data is left.
close_KeepsData(st, author, task) ==
    [st EXCEPT !.lamports[author] = @ + st.task_lamports[task],
               !.task_lamports[task] = 0]

\* Mutant of close: the account is emptied, its lamports are not paid out.
close_NoRefund(st, author, task) ==
    [st EXCEPT !.task_lamports[task] = 0,
               !.accounts[task] = None]

\* close = author: the account's lamports go to the author and the account
\* is handed back to the system program, empty.
close(st, author, task) ==
    [st EXCEPT !.lamports[author] = @ + st.task_lamports[task],
               !.task_lamports[task] = 0,
               !.accounts[task] = None]

(***************************************************************************)
(* Handlers (mod task_manager).                                            *)
(***************************************************************************)
\* Mutant of create_task: the author field is not written.
create_task_NoAuthor(st, author, task, title, description) ==
    IF ~(len(title) <= MAX_TITLE) THEN Err(st, "TitleTooLong")
    ELSE IF is_empty(trim(title)) THEN Err(st, "TitleIsEmpty")
    ELSE IF ~(len(description) <= MAX_DESCRIPTION) THEN Err(st, "DescriptionTooLong")
    ELSE IF is_empty(trim(description)) THEN Err(st, "DescriptionIsEmpty")
    ELSE Ok([st EXCEPT !.accounts[task] =
                [@ EXCEPT !.title = title, !.description = description,
                          !.is_completed = FALSE, !.created_at = st.clock]])

create_task(st, author, task, title, description) ==
    IF ~(len(title) <= MAX_TITLE) THEN Err(st, "TitleTooLong")
    ELSE IF is_empty(trim(title)) THEN Err(st, "TitleIsEmpty")
    ELSE IF ~(len(description) <= MAX_DESCRIPTION) THEN Err(st, "DescriptionTooLong")
    ELSE IF is_empty(trim(description)) THEN Err(st, "DescriptionIsEmpty")
    ELSE Ok([st EXCEPT !.accounts[task] =
                [author |-> author, title |-> title, description |-> description,
                 is_completed |-> FALSE, created_at |-> st.clock]])

\* Mutant of update_task: the update also stamps the task with the clock.
update_task_Restamps(st, author, task, description) ==
    IF ~(len(description) <= MAX_DESCRIPTION) THEN Err(st, "DescriptionTooLong")
    ELSE IF is_empty(trim(description)) THEN Err(st, "DescriptionIsEmpty")
    ELSE Ok([st EXCEPT !.accounts[task].description = description,
                       !.accounts[task].created_at = st.clock])

\* Mutant of update_task: the emptiness check is made on the untrimmed
\* description.
update_task_NoTrim(st, author, task, description) ==
    IF ~(len(description) <= MAX_DESCRIPTION) THEN Err(st, "DescriptionTooLong")
    ELSE IF is_empty(description) THEN Err(st, "DescriptionIsEmpty")
    ELSE Ok([st EXCEPT !.accounts[task].description = description])

\* Mutant of update_task: the task is written back as a fresh one.
update_task_ResetsCompleted(st, author, task, description) ==
    IF ~(len(description) <= MAX_DESCRIPTION) THEN Err(st, "DescriptionTooLong")
    ELSE IF is_empty(trim(description)) THEN Err(st, "DescriptionIsEmpty")
    ELSE Ok([st EXCEPT !.accounts[task].description = description,
                       !.accounts[task].is_completed = FALSE])

update_task(st, author, task, description) ==
    IF ~(len(description) <= MAX_DESCRIPTION) THEN Err(st, "DescriptionTooLong")
    ELSE IF is_empty(trim(description)) THEN Err(st, "DescriptionIsEmpty")
    ELSE Ok([st EXCEPT !.accounts[task].description = description])

\* Mutant of complete_task: the flag is toggled.
complete_task_Toggle(st, author, task) ==
    Ok([st EXCEPT !.accounts[task].is_completed = ~@])

\* Mutant of complete_task: completing also stamps the task with the clock.
complete_task_Restamps(st, author, task) ==
    Ok([st EXCEPT !.accounts[task].is_completed = TRUE,
                  !.accounts[task].created_at = st.clock])

complete_task(st, author, task) ==
    Ok([st EXCEPT !.accounts[task].is_completed = TRUE])

delete_task(st, author, task) ==
    IF ~(st.accounts[task].author = author) THEN Err(st, "Unauthorized")
    ELSE Ok(st)

(***************************************************************************)
(* Instructions: constraints, then the handler, then the exit step.  A     *)
(* transaction that returns an error leaves the ledger as it found it.     *)
(***************************************************************************)
\* Mutant of Transaction: what was written before the error stays.
Transaction_NoRevert(st, r) == r

\* The outcome of a transaction on ledger st whose last step returned r.
Transaction(st, r) == IF r.result = "Ok" THEN r ELSE Err(st, r.result)

\* Mutant of create_task_ix: the handler's checks run before the account
\* constraints.
create_task_ix_ValidateFirst(st, author, task, title, description) ==
    LET v == create_task(st, author, task, title, description) IN
    IF v.result # "Ok" THEN Transaction(st, v)
    ELSE LET a == CreateTask(st, author, task, title) IN
         IF a.result # "Ok" THEN Transaction(st, a)
         ELSE LET h == create_task(a.st, author, task, title, description) IN
              IF h.result # "Ok" THEN Transaction(st, h)
              ELSE Transaction(st, exit(h.st, task))

create_task_ix(st, author, task, title, description) ==
    LET a == CreateTask(st, author, task, title) IN
    IF a.result # "Ok" THEN Transaction(st, a)
    ELSE LET h == create_task(a.st, author, task, title, description) IN
         IF h.result # "Ok" THEN Transaction(st, h)
         ELSE Transaction(st, exit(h.st, task))

update_task_ix(st, author, task, description) ==
    LET a == UpdateTask(st, author, task) IN
    IF a.result # "Ok" THEN Transaction(st, a)
    ELSE LET h == update_task(a.st, author, task, description) IN
         IF h.result # "Ok" THEN Transaction(st, h)
         ELSE Transaction(st, exit(h.st, task))

complete_task_ix(st, author, task) ==
    LET a == CompleteTask(st, author, task) IN
    IF a.result # "Ok" THEN Transaction(st, a)
    ELSE LET h == complete_task(a.st, author, task) IN
         IF h.result # "Ok" THEN Transaction(st, h)
         ELSE Transaction(st, exit(h.st, task))

delete_task_ix(st, author, task) ==
    LET a == DeleteTask(st, author, task) IN
    IF a.result # "Ok" THEN Transaction(st, a)
    ELSE LET h == delete_task(a.st, author, task) IN
         IF h.result # "Ok" THEN Transaction(st, h)
         ELSE Transaction(st, Ok(close(h.st, author, task)))

(***************************************************************************)
(* The state machine.                                                      *)
(***************************************************************************)
NoCall ==
    [op |-> "none", author |-> "none", task |-> <<"none", << >> >>,
     title |-> << >>, description |-> << >>, result |-> "none"]

Call(op, author, task, title, description, result) ==
    [op |-> op, author |-> author, task |-> task, title |-> title,
     description |-> description, result |-> result]

Init ==
    /\ accounts = [a \in Addresses |-> None]
    /\ lamports = InitLamports
    /\ task_lamports = [a \in Addresses |-> 0]
    /\ clock = 0
    /\ last = NoCall
    /\ pre = State
    /\ ever_completed = {}
    /\ ever_deleted = {}
    /\ pending = {}
    /\ results = {}

\* The addresses at which a completed task is stored.
Completed(acc) == {a \in Addresses : acc[a] # None /\ acc[a].is_completed}

\* The addresses whose history is kept: those of owner A.
Tracked == {a \in Addresses : a[1] = "A"}

\* The address whose deletions are remembered: that of A's task T_PADDED.
TrackedDeleted == {a \in Tracked : a[2] = T_PADDED}

\* The address whose task the transaction recorded in call has deleted.
Deleted(call) ==
    IF call.op = "delete_task" /\ call.result = "Ok" THEN {call.task} ELSE {}

\* ever_completed and ever_deleted are history variables.  Tracking
\* "completed", ever_completed collects every tracked address at which a
\* completed task has been seen; tracking "deleted", ever_deleted collects
\* the address of TrackedDeleted once a delete_task has removed its task.
\* Otherwise they stay empty.
History(track) ==
    /\ ever_completed' =
           IF track = "completed"
           THEN ever_completed \cup (Completed(accounts') \cap Tracked)
           ELSE ever_completed
    /\ ever_deleted' =
           IF track = "deleted"
           THEN ever_deleted \cup (Deleted(last') \cap TrackedDeleted)
           ELSE ever_deleted

\* The ledger after a transaction, and the record of the transaction.
Commit(r, call) ==
    /\ accounts' = r.st.accounts
    /\ lamports' = r.st.lamports
    /\ task_lamports' = r.st.task_lamports
    /\ clock' = r.st.clock
    /\ pre' = State
    /\ last' = call
    /\ UNCHANGED <<pending, results>>

Create(track) ==
    /\ last = NoCall
    /\ \E author \in Owners, title \in Titles, description \in Descriptions :
       \E task \in ClientAddresses(title) :
          LET r == create_task_ix(State, author, task, title, description) IN
          Commit(r, Call("create_task", author, task, title, description, r.result))
    /\ History(track)

Update(track) ==
    /\ last = NoCall
    /\ \E author \in Owners, task \in Addresses, description \in Descriptions :
          LET r == update_task_ix(State, author, task, description) IN
          Commit(r, Call("update_task", author, task, << >>, description, r.result))
    /\ History(track)

Complete(track) ==
    /\ last = NoCall
    /\ \E author \in Owners, task \in Addresses :
          LET r == complete_task_ix(State, author, task) IN
          Commit(r, Call("complete_task", author, task, << >>, << >>, r.result))
    /\ History(track)

Delete(track) ==
    /\ last = NoCall
    /\ \E author \in Owners, task \in Addresses :
          LET r == delete_task_ix(State, author, task) IN
          Commit(r, Call("delete_task", author, task, << >>, << >>, r.result))
    /\ History(track)

\* The cluster clock advances between transactions.
Tick ==
    /\ last = NoCall
    /\ clock < MaxClock
    /\ clock' = clock + 1
    /\ pre' = [pre EXCEPT !.clock = clock + 1]
    /\ UNCHANGED <<accounts, lamports, task_lamports, last,
                   ever_completed, ever_deleted, pending, results>>

\* The result has been delivered; the next transaction can be processed.
Return ==
    /\ last # NoCall
    /\ last' = NoCall
    /\ pre' = State
    /\ UNCHANGED <<accounts, lamports, task_lamports, clock,
                   ever_completed, ever_deleted, pending, results>>

Next ==
    \/ Create("none")
    \/ Update("none")
    \/ Complete("none")
    \/ Delete("none")
    \/ Tick
    \/ Return

Spec == Init /\ [][Next]_vars

\* The same machine with the history kept.
NextHist ==
    \/ Create("completed")
    \/ Update("completed")
    \/ Complete("completed")
    \/ Delete("completed")
    \/ Tick
    \/ Return

SpecHist == Init /\ [][NextHist]_vars

\* The same machine with the deletions remembered.
NextDeleted ==
    \/ Create("deleted")
    \/ Update("deleted")
    \/ Complete("deleted")
    \/ Delete("deleted")
    \/ Tick
    \/ Return

SpecDeleted == Init /\ [][NextDeleted]_vars

(***************************************************************************)
(* Two concurrent create_task transactions.  Both write the same task      *)
(* account, so the runtime processes them one after the other, in either   *)
(* order, each as one transaction.                                         *)
(***************************************************************************)
\* A create_task transaction a client has submitted for its own address.
Request(id, author, title, description) ==
    [id |-> id, author |-> author,
     task |-> <<author, IF len(title) <= MAX_SEED_LEN THEN title ELSE T_SEED>>,
     title |-> title, description |-> description]

\* The ledger at genesis, with two create_task transactions of one author
\* for one title submitted and not yet processed.
InitRace ==
    /\ accounts = [a \in Addresses |-> None]
    /\ lamports = InitLamports
    /\ task_lamports = [a \in Addresses |-> 0]
    /\ clock = 0
    /\ last = NoCall
    /\ pre = State
    /\ ever_completed = {}
    /\ ever_deleted = {}
    /\ results = {}
    /\ \E author \in Owners, title \in Titles, d1 \in Descriptions, d2 \in Descriptions :
          pending = {Request(1, author, title, d1), Request(2, author, title, d2)}

\* The runtime processes one of the submitted transactions.
Process ==
    /\ last = NoCall
    /\ \E req \in pending :
          LET r == create_task_ix(State, req.author, req.task, req.title,
                                  req.description) IN
          /\ accounts' = r.st.accounts
          /\ lamports' = r.st.lamports
          /\ task_lamports' = r.st.task_lamports
          /\ clock' = r.st.clock
          /\ pre' = State
          /\ last' = Call("create_task", req.author, req.task, req.title,
                          req.description, r.result)
          /\ pending' = pending \ {req}
          /\ results' = results \cup {[req |-> req, result |-> r.result]}
    /\ UNCHANGED <<ever_completed, ever_deleted>>

NextRace ==
    \/ Process
    \/ Tick
    \/ Return

SpecRace == InitRace /\ [][NextRace]_vars

(***************************************************************************)
(* Properties.  `last` is the transaction just processed, `pre` the ledger *)
(* it ran against, and the variables the ledger it left.                   *)
(***************************************************************************)
ValidTitle(t) == len(t) >= 1 /\ len(t) <= MAX_TITLE /\ ~is_empty(trim(t))

ValidDescription(d) == len(d) >= 1 /\ len(d) <= MAX_DESCRIPTION /\ ~is_empty(trim(d))

\* The record read at the address of (author, title); None when there is
\* none (no address is derived from a title longer than a seed).
RecordAt(acc, author, title) ==
    LET a == find_program_address(author, title) IN
    IF a \in Addresses /\ len(title) <= MAX_SEED_LEN THEN acc[a] ELSE None

\* The transaction just processed is a call of op by the identity whose
\* address the passed task account was derived for.
OwnCall(op) == last.op = op /\ last.task[1] = last.author

Ledger == <<accounts, lamports, task_lamports>>

PreLedger == <<pre.accounts, pre.lamports, pre.task_lamports>>

\* C1: for every owner and every title and description within the limits,
\* create_task on an absent (owner, title) address (by an owner who holds
\* the deposit) succeeds, and the record then read at the address has
\* completed = false, the caller as owner, and the title and description
\* as supplied, untrimmed.
C1_CreateRoundTrip ==
    (/\ OwnCall("create_task")
     /\ ValidTitle(last.title)
     /\ ValidDescription(last.description)
     /\ RecordAt(pre.accounts, last.author, last.title) = None
     /\ pre.lamports[last.author] >= Rent)
    => /\ last.result = "Ok"
       /\ LET rec == RecordAt(accounts, last.author, last.title) IN
          /\ rec # None
          /\ rec.is_completed = FALSE
          /\ rec.author = last.author
          /\ rec.title = last.title
          /\ rec.description = last.description

\* C2 as stated: delete_task by an identity that is not the stored owner
\* fails with Unauthorized and leaves the record intact; by the owner it
\* succeeds and a read at the address then fails with NotFound.
C2_DeleteNonOwnerUnauthorized ==
    (last.op = "delete_task" /\ pre.accounts[last.task] # None)
    => IF last.author # pre.accounts[last.task].author
       THEN last.result = "Unauthorized" /\ accounts = pre.accounts
       ELSE /\ last.result = "Ok"
            /\ \A o \in Owners : TaskAccount(State, o, last.task).result = "NotFound"

\* C2 as amended: delete_task by an identity that is not the stored owner
\* fails with ConstraintSeeds (the address is not derived from the signer)
\* and leaves the record and every balance intact; by the owner it
\* succeeds and a read at the address then fails with NotFound.
C2_DeleteNonOwnerRejected ==
    (last.op = "delete_task" /\ pre.accounts[last.task] # None)
    => IF last.author # pre.accounts[last.task].author
       THEN last.result = "ConstraintSeeds" /\ Ledger = PreLedger
       ELSE /\ last.result = "Ok"
            /\ accounts[last.task] = None
            /\ \A o \in Owners : TaskAccount(State, o, last.task).result = "NotFound"

\* A delete_task signed by another identity than the owner of a live,
\* completed task has been rejected.
C2_Witness ==
    /\ last.op = "delete_task"
    /\ pre.accounts[last.task] # None
    /\ pre.accounts[last.task].author # last.author
    /\ pre.accounts[last.task].is_completed
    /\ last.result = "ConstraintSeeds"

\* C3: a second create_task with the same (owner, title) while the first
\* record is live fails with AlreadyExists, and every field of the first
\* record is as before, whatever description the second call supplies.
C3_CreateTwice ==
    (OwnCall("create_task") /\ RecordAt(pre.accounts, last.author, last.title) # None)
    => /\ last.result = "AlreadyExists"
       /\ RecordAt(accounts, last.author, last.title)
              = RecordAt(pre.accounts, last.author, last.title)
       /\ Ledger = PreLedger

\* A second create_task has been processed at a later time than the first,
\* with a valid description that is not the stored one.
C3_Witness ==
    /\ OwnCall("create_task")
    /\ RecordAt(pre.accounts, last.author, last.title) # None
    /\ ValidDescription(last.description)
    /\ last.description # RecordAt(pre.accounts, last.author, last.title).description
    /\ pre.clock # RecordAt(pre.accounts, last.author, last.title).created_at
    /\ last.result = "AlreadyExists"

\* C4: update_task on an (owner, title) with no live record fails with
\* NotFound; on a live record with a valid new description it replaces the
\* description only: title, owner, created_at and completed are as before
\* (and so is every other record).
C4_UpdateFrame ==
    OwnCall("update_task")
    => /\ pre.accounts[last.task] = None => last.result = "NotFound"
       /\ (pre.accounts[last.task] # None /\ ValidDescription(last.description))
          => /\ last.result = "Ok"
             /\ accounts[last.task].description = last.description
             /\ accounts[last.task].title = pre.accounts[last.task].title
             /\ accounts[last.task].author = pre.accounts[last.task].author
             /\ accounts[last.task].created_at = pre.accounts[last.task].created_at
             /\ accounts[last.task].is_completed = pre.accounts[last.task].is_completed
             /\ \A a \in Addresses \ {last.task} : accounts[a] = pre.accounts[a]

\* An update_task has replaced the description of a completed task created
\* at an earlier time.
C4_Witness ==
    /\ OwnCall("update_task")
    /\ last.result = "Ok"
    /\ pre.accounts[last.task].description # last.description
    /\ accounts[last.task].description = last.description
    /\ accounts[last.task].is_completed
    /\ accounts[last.task].created_at # clock

\* C5: create_task (on an absent address, by an owner who holds the
\* deposit) fails with TitleTooLong when the title has 101 bytes or more,
\* with TitleEmpty when the title is empty after trimming, with
\* DescriptionTooLong when the description has 1001 bytes or more, with
\* DescriptionEmpty when it is empty after trimming; a title of exactly 100
\* bytes and a description of exactly 1000 bytes are accepted.
C5_ValidationErrors ==
    (/\ OwnCall("create_task")
     /\ RecordAt(pre.accounts, last.author, last.title) = None
     /\ pre.lamports[last.author] >= Rent)
    => /\ len(last.title) > MAX_TITLE => last.result = "TitleTooLong"
       /\ (len(last.title) <= MAX_TITLE /\ is_empty(trim(last.title)))
          => last.result = "TitleIsEmpty"
       /\ (ValidTitle(last.title) /\ len(last.description) > MAX_DESCRIPTION)
          => last.result = "DescriptionTooLong"
       /\ (/\ ValidTitle(last.title)
           /\ len(last.description) <= MAX_DESCRIPTION
           /\ is_empty(trim(last.description)))
          => last.result = "DescriptionIsEmpty"
       /\ (/\ ValidTitle(last.title)
           /\ ValidDescription(last.description)
           /\ len(last.title) = MAX_TITLE \/ len(last.description) = MAX_DESCRIPTION)
          => last.result = "Ok"

\* C6: no operation partially applies its effect: when a transaction
\* returns an error, every record, every deposit and every wallet is as it
\* was before the call.
C6_NoPartialEffect ==
    (last.op # "none" /\ last.result # "Ok") => Ledger = PreLedger

\* A create_task has failed in the handler, after `init` had created the
\* account and taken the deposit.
C6_Witness ==
    /\ last.op = "create_task"
    /\ last.result = "DescriptionIsEmpty"
    /\ CreateTask(pre, last.author, last.task, last.title).result = "Ok"
    /\ CreateTask(pre, last.author, last.task, last.title).st.lamports # lamports

\* C7: in every reachable state every live record has a title that is not
\* empty after trimming and has at most 100 bytes, and a description that
\* is not empty after trimming and has at most 1000 bytes.
C7_RecordsValid ==
    \A a \in Addresses :
        accounts[a] # None
        => ValidTitle(accounts[a].title) /\ ValidDescription(accounts[a].description)

\* An update_task of a live task with a description of blanks only has
\* just been refused, while a task whose title is as long as a seed allows
\* holds a description of the maximal length.
C7_Witness ==
    /\ last.op = "update_task"
    /\ last.result = "DescriptionIsEmpty"
    /\ ~is_empty(last.description)
    /\ pre.accounts[last.task] # None
    /\ \E a \in Addresses :
          /\ accounts[a] # None
          /\ len(accounts[a].title) = MAX_SEED_LEN
          /\ len(accounts[a].description) = MAX_DESCRIPTION

\* C8: a transaction signed by an identity that is not the owner of a live
\* record neither changes nor removes that record (nor its deposit),
\* whatever the instruction.
C8_OthersCannotModify ==
    last.op # "none"
    => \A a \in Addresses :
          (pre.accounts[a] # None /\ pre.accounts[a].author # last.author)
          => accounts[a] = pre.accounts[a] /\ task_lamports[a] = pre.task_lamports[a]

\* An update_task with a valid new description, signed by another identity
\* than the owner of the live task it names, has been rejected.
C8_Witness ==
    /\ last.op = "update_task"
    /\ pre.accounts[last.task] # None
    /\ pre.accounts[last.task].author # last.author
    /\ ValidDescription(last.description)
    /\ last.description # pre.accounts[last.task].description
    /\ last.result = "ConstraintSeeds"

\* C9: complete_task is idempotent: after a successful complete_task, the
\* same call again succeeds and leaves the ledger as the first call left
\* it, with completed = true; and a complete_task of a task that was
\* already completed has succeeded and changed nothing.
C9_CompleteIdempotent ==
    (last.op = "complete_task" /\ pre.accounts[last.task] # None /\ last.task[1] = last.author)
    => /\ last.result = "Ok"
       /\ accounts[last.task].is_completed
       /\ LET again == complete_task_ix(State, last.author, last.task) IN
          again.result = "Ok" /\ again.st = State
       /\ pre.accounts[last.task].is_completed => Ledger = PreLedger

\* A second complete_task of the same task has succeeded.
C9_Witness ==
    /\ last.op = "complete_task"
    /\ last.result = "Ok"
    /\ pre.accounts[last.task] # None
    /\ pre.accounts[last.task].is_completed

\* C10 as stated: once a record at (owner, title) has completed = true, no
\* later state holds a record at (owner, title) with completed = false.
C10_NeverUncompletedAgain ==
    \A a \in ever_completed : accounts[a] # None => accounts[a].is_completed

\* C10 as amended: the completed flag of a live record is never reset: a
\* record with completed = true keeps it in every step that leaves the
\* record live.
C10_CompletedStaysWhileLive ==
    [][\A a \in Addresses :
          (accounts[a] # None /\ accounts[a].is_completed /\ accounts'[a] # None)
          => accounts'[a].is_completed]_vars

\* An update_task has just rewritten a task that was completed before, and
\* the task is still completed.
C10_Witness ==
    /\ last.op = "update_task"
    /\ last.result = "Ok"
    /\ last.task \in ever_completed
    /\ pre.accounts[last.task].is_completed
    /\ pre.accounts[last.task].description # accounts[last.task].description
    /\ accounts[last.task].is_completed

\* A record is removed only by the delete_task that has just succeeded on it.
RemovedOnlyByDelete ==
    \A a \in Addresses :
        (accounts[a] # None /\ accounts'[a] = None) => Deleted(last') = {a}

\* C11 as stated: a live record returns to absent only through a successful
\* delete_task, and after a successful delete_task on (owner, title) no
\* further operation of the owner on that (owner, title) succeeds.
C11_DeletionTerminal ==
    [][/\ RemovedOnlyByDelete
       /\ (/\ last'.op # "none"
           /\ last'.task \in ever_deleted
           /\ last'.task[1] = last'.author)
          => last'.result # "Ok"]_vars

\* The state a successful delete_task leaves: the address is absent, so
\* update_task, complete_task and delete_task on it fail with NotFound,
\* and create_task with a valid description succeeds on it again.
AfterDelete ==
    (last.op = "delete_task" /\ last.result = "Ok")
    => /\ accounts[last.task] = None
       /\ \A d \in Descriptions :
             update_task_ix(State, last.author, last.task, d).result = "NotFound"
       /\ complete_task_ix(State, last.author, last.task).result = "NotFound"
       /\ delete_task_ix(State, last.author, last.task).result = "NotFound"
       /\ \A d \in Descriptions :
             ValidDescription(d)
             => create_task_ix(State, last.author, last.task, last.task[2], d).result
                    = "Ok"

\* A call of the owner on an address whose task has been deleted, while the
\* address is absent: create_task with a valid description succeeds, the
\* other three fail with NotFound.
OnDeletedAddress ==
    (/\ last.op # "none"
     /\ last.task \in ever_deleted
     /\ last.task[1] = last.author
     /\ pre.accounts[last.task] = None)
    => IF last.op = "create_task"
       THEN (ValidDescription(last.description) /\ pre.lamports[last.author] >= Rent)
            => last.result = "Ok" /\ accounts[last.task] # None
       ELSE last.result = "NotFound"

\* C11 as amended: a live record returns to absent only through a
\* successful delete_task; after it, update_task, complete_task and
\* delete_task on that (owner, title) fail with NotFound while the address
\* is absent, and create_task is valid again: with a valid description it
\* succeeds and stores a new record.
C11_DeletionFreesAddress ==
    /\ [][RemovedOnlyByDelete]_vars
    /\ [](AfterDelete /\ OnDeletedAddress)

\* A create_task has succeeded at an address whose task had been deleted.
C11_Witness ==
    /\ last.op = "create_task"
    /\ last.result = "Ok"
    /\ last.task \in ever_deleted
    /\ accounts[last.task] # None

\* C12: when two create_task calls for the same (owner, title) with valid
\* inputs are issued concurrently against an absent address, exactly one
\* succeeds, the other fails with AlreadyExists, and the stored record is
\* the one the successful call wrote.
C12_ConcurrentCreate ==
    (/\ pending = {}
     /\ Cardinality(results) = 2
     /\ \A x \in results :
           ValidTitle(x.req.title) /\ ValidDescription(x.req.description))
    => \E w \in results :
          /\ w.result = "Ok"
          /\ \A l \in results \ {w} : l.result = "AlreadyExists"
          /\ RecordAt(accounts, w.req.author, w.req.title) # None
          /\ RecordAt(accounts, w.req.author, w.req.title).description
                 = w.req.description
          /\ RecordAt(accounts, w.req.author, w.req.title).author = w.req.author

\* C13: the owner, title and created_at of a live record are immutable:
\* every step that leaves the record live leaves the three fields as they
\* are, and they are the values create_task wrote (the signer, the title of
\* the address, the clock of the creation).
C13_FieldsImmutable ==
    [][/\ \A a \in Addresses :
             (accounts[a] # None /\ accounts'[a] # None)
             => /\ accounts'[a].author = accounts[a].author
                /\ accounts'[a].title = accounts[a].title
                /\ accounts'[a].created_at = accounts[a].created_at
       /\ \A a \in Addresses :
             (accounts[a] = None /\ accounts'[a] # None)
             => /\ last'.op = "create_task"
                /\ accounts'[a].author = last'.author
                /\ accounts'[a].title = last'.title
                /\ accounts'[a].created_at = clock]_vars

\* A task created at an earlier time has been updated and then completed.
C13_Witness ==
    /\ last.op = "complete_task"
    /\ last.result = "Ok"
    /\ ~pre.accounts[last.task].is_completed
    /\ accounts[last.task].description = D_MAX
    /\ accounts[last.task].created_at < clock

\* The lamports held by the accounts of set S under balance function f.
RECURSIVE Balance(_, _)
Balance(f, S) ==
    IF S = {} THEN 0
    ELSE LET x == CHOOSE y \in S : TRUE IN f[x] + Balance(f, S \ {x})

\* C14: a successful delete_task removes the record and pays the whole
\* deposit made at creation to the record's owner, and in every reachable
\* state the wallets and the deposits of the task accounts add up to the
\* lamports there were at genesis.
C14_DepositConserved ==
    /\ Balance(lamports, Owners) + Balance(task_lamports, Addresses)
         = Balance(InitLamports, Owners)
    /\ \A a \in Addresses :
          task_lamports[a] = IF accounts[a] = None THEN 0 ELSE Rent
    /\ (last.op = "delete_task" /\ last.result = "Ok")
       => /\ pre.accounts[last.task].author = last.author
          /\ pre.task_lamports[last.task] = Rent
          /\ accounts[last.task] = None
          /\ task_lamports[last.task] = 0
          /\ lamports = [pre.lamports EXCEPT ![last.author] = @ + Rent]

\* B, who spent its whole wallet on the deposit, has deleted its task while
\* a task of A is live.
C14_Witness ==
    /\ last.op = "delete_task"
    /\ last.result = "Ok"
    /\ last.author = "B"
    /\ pre.lamports["B"] = 0
    /\ lamports["B"] = Rent
    /\ \E a \in Addresses : accounts[a] # None

\* C15: issued by one owner with valid inputs (and the deposit in the
\* wallet), each step of create_task, update_task, complete_task,
\* delete_task succeeds on the state the step before it leaves: create_task
\* on an absent address succeeds and leaves a live record, update_task and
\* complete_task on a live record succeed whatever its completed flag, and
\* delete_task on a live record succeeds and leaves the address absent.
C15_Lifecycle ==
    /\ (/\ OwnCall("create_task")
        /\ ValidTitle(last.title)
        /\ ValidDescription(last.description)
        /\ RecordAt(pre.accounts, last.author, last.title) = None
        /\ pre.lamports[last.author] >= Rent)
       => /\ last.result = "Ok"
          /\ RecordAt(accounts, last.author, last.title) # None
    /\ (/\ OwnCall("update_task")
        /\ pre.accounts[last.task] # None
        /\ ValidDescription(last.description))
       => /\ last.result = "Ok"
          /\ accounts[last.task] # None
    /\ (OwnCall("complete_task") /\ pre.accounts[last.task] # None)
       => /\ last.result = "Ok"
          /\ accounts[last.task] # None
    /\ (OwnCall("delete_task") /\ pre.accounts[last.task] # None)
       => /\ last.result = "Ok"
          /\ accounts[last.task] = None

\* C16: in every reachable state the stored author of a live record is the
\* owner component of its address and the stored title is the title
\* component, so a delete_task that passes the account constraints for the
\* signer passes the handler's author check, and no transaction returns
\* Unauthorized.
C16_OwnerCheckRedundant ==
    /\ \A a \in Addresses :
          accounts[a] # None
          => /\ accounts[a].author = a[1]
             /\ accounts[a].title = a[2]
    /\ \A o \in Owners, a \in Addresses :
          DeleteTask(State, o, a).result = "Ok"
          => delete_task(State, o, a).result = "Ok"
    /\ last.result # "Unauthorized"

\* A has deleted one of its tasks while B holds a completed task that A
\* could not have passed the constraints for.
C16_Witness ==
    /\ last.op = "delete_task"
    /\ last.result = "Ok"
    /\ last.author = "A"
    /\ \E a \in Addresses :
          /\ accounts[a] # None
          /\ accounts[a].author = "B"
          /\ accounts[a].is_completed
          /\ DeleteTask(State, "A", a).result = "ConstraintSeeds"

\* The errors of the require! checks on title and description.
ValidationErrors ==
    {"TitleTooLong", "TitleIsEmpty", "DescriptionTooLong", "DescriptionIsEmpty"}

\* C17 as stated: validation failures take precedence over store-state
\* failures: create_task with an invalid title or description on an
\* occupied (owner, title) address fails with a validation error, and
\* update_task with an invalid description on an address with no record
\* fails with DescriptionIsEmpty or DescriptionTooLong.
C17_ValidationFirst ==
    /\ (/\ OwnCall("create_task")
        /\ RecordAt(pre.accounts, last.author, last.title) # None
        /\ ~(ValidTitle(last.title) /\ ValidDescription(last.description)))
       => last.result \in ValidationErrors
    /\ (/\ last.op = "update_task"
        /\ pre.accounts[last.task] = None
        /\ ~ValidDescription(last.description))
       => last.result \in {"DescriptionTooLong", "DescriptionIsEmpty"}

\* C17 as amended: store-state failures take precedence over validation
\* failures.  create_task with an invalid description on an occupied
\* (owner, title) address fails with AlreadyExists (the title of an occupied
\* address is a valid one), update_task with an invalid description on an
\* address with no record fails with NotFound, both leave the ledger as it
\* was, and a validation error is returned only by a transaction whose
\* account constraints passed.
C17_AccountsFirst ==
    /\ (/\ OwnCall("create_task")
        /\ RecordAt(pre.accounts, last.author, last.title) # None)
       => /\ ValidTitle(last.title)
          /\ ~ValidDescription(last.description)
             => (last.result = "AlreadyExists" /\ Ledger = PreLedger)
    /\ (/\ last.op = "update_task"
        /\ pre.accounts[last.task] = None
        /\ ~ValidDescription(last.description))
       => (last.result = "NotFound" /\ Ledger = PreLedger)
    /\ (last.op = "create_task" /\ last.result \in ValidationErrors)
       => CreateTask(pre, last.author, last.task, last.title).result = "Ok"
    /\ (last.op = "update_task" /\ last.result \in ValidationErrors)
       => UpdateTask(pre, last.author, last.task).result = "Ok"

\* A create_task with a description over the limit has been refused on an
\* occupied address, in a state where an update_task with a blank
\* description on an address with no record fails with NotFound.
C17_Witness ==
    /\ OwnCall("create_task")
    /\ RecordAt(pre.accounts, last.author, last.title) # None
    /\ last.description = D_MAX1
    /\ last.result = "AlreadyExists"
    /\ \E a \in Addresses :
          /\ accounts[a] = None
          /\ update_task_ix(State, a[1], a, D_BLANK).result = "NotFound"

\* The error of the first failing check in the order title length, title
\* emptiness, description length, description emptiness; "Ok" when none
\* fails.
FirstFailing(title, description) ==
    IF len(title) > MAX_TITLE THEN "TitleTooLong"
    ELSE IF len(trim(title)) = 0 THEN "TitleIsEmpty"
    ELSE IF len(description) > MAX_DESCRIPTION THEN "DescriptionTooLong"
    ELSE IF len(trim(description)) = 0 THEN "DescriptionIsEmpty"
    ELSE "Ok"

\* C18: a create_task (on an absent address of the caller, who holds the
\* deposit) with an invalid title or description returns the error of the
\* first failing check in the order title length, title emptiness,
\* description length, description emptiness: a title both longer than 100
\* bytes and blank yields TitleTooLong, and an invalid title yields a title
\* error whatever the description.
C18_ValidationOrder ==
    (/\ OwnCall("create_task")
     /\ RecordAt(pre.accounts, last.author, last.title) = None
     /\ pre.lamports[last.author] >= Rent
     /\ FirstFailing(last.title, last.description) # "Ok")
    => /\ last.result = FirstFailing(last.title, last.description)
       /\ last.title = T_BLANK_LONG => last.result = "TitleTooLong"
       /\ ~ValidTitle(last.title) => last.result \in {"TitleTooLong", "TitleIsEmpty"}

\* C19: the space a task account is created with (the 8-byte discriminator
\* and the largest encoding of each field) holds every task that passes the
\* checks of create_task or update_task, the largest title with the largest
\* description included: the task the handler of a processed call accepts
\* fits whatever the account constraints said, every stored task fits, the
\* largest task fills the space exactly, and no transaction fails to write
\* its task back.
C19_SpaceSuffices ==
    /\ last.op = "create_task"
       => LET r == create_task([pre EXCEPT !.accounts[last.task] = ZeroTask],
                               last.author, last.task, last.title,
                               last.description) IN
          r.result = "Ok" => serialized_size(r.st.accounts[last.task]) <= space
    /\ (last.op = "update_task" /\ pre.accounts[last.task] # None)
       => LET r == update_task(pre, last.author, last.task, last.description) IN
          r.result = "Ok" => serialized_size(r.st.accounts[last.task]) <= space
    /\ \A a \in Addresses :
          accounts[a] # None => serialized_size(accounts[a]) <= space
    /\ serialized_size([ZeroTask EXCEPT !.title = T_MAX, !.description = D_MAX])
          = space
    /\ last.result # "AccountDidNotSerialize"

\* The longest title that can be stored has been given the longest
\* description by update_task.
C19_Witness ==
    /\ OwnCall("update_task")
    /\ last.result = "Ok"
    /\ last.description = D_MAX
    /\ pre.accounts[last.task].description # D_MAX
    /\ accounts[last.task].title = T_SEED
    /\ accounts[last.task].description = D_MAX

====
